---- MODULE Spec2Model ----
(***************************************************************************)
(* kamapack: divergence estimation from count data.                        *)
(*                                                                         *)
(* The module models                                                       *)
(*   - kamapack/default_divergence.py : switchboard, Naive, Dirichlet;     *)
(*   - kamapack/estimate.py           : Skeleton_Class, Experiment,        *)
(*                                      Divergence (the front end).        *)
(*                                                                         *)
(* Numbers.  A Python float is modelled by the exact rational <<n, d>> it  *)
(* stands for (d > 0, lowest terms).  np.log is the real logarithm; the    *)
(* logarithm of a positive rational is written in the basis of the         *)
(* logarithms of the primes, log(n/d) = SUM_p (v_p(n) - v_p(d)) log p.     *)
(* The log p are linearly independent over the rationals, so a sum of      *)
(* rational multiples of logarithms has exactly one such form: two         *)
(* estimates are the same real number iff their forms are equal.  np.sqrt  *)
(* is the square root rounded down to a multiple of 1/SqrtPrec.            *)
(***************************************************************************)
EXTENDS Integers, Sequences, FiniteSets, TLC

\* ------------------------------------------------------------- bounds ----
\* largest number of categories a compact summary lists (the sum of ff)
MaxK == 3
\* largest number of observations of one experiment of a compact summary
MaxN == 3
\* np.sqrt is rounded down to a multiple of 1/SqrtPrec
SqrtPrec == 4
\* the largest count of a category in a histogram handed to the front end
MaxTally == 1
\* the largest length of an array of candidate values alpha
MaxAlpha == 3

\* --------------------------------------------------------- rationals ----
Abs(x) == IF x < 0 THEN -x ELSE x

RECURSIVE GCD(_, _)
GCD(x, y) == IF y = 0 THEN x ELSE GCD(y, x % y)

\* the rational n/d in lowest terms, d > 0
Rat(n, d) ==
    LET g == GCD(Abs(n), Abs(d))
        s == IF d < 0 THEN -1 ELSE 1
    IN  << (s * n) \div g, (s * d) \div g >>

RInt(n) == << n, 1 >>
RAdd(x, y) ==
    LET g == GCD(x[2], y[2])
    IN  Rat(x[1] * (y[2] \div g) + y[1] * (x[2] \div g), (x[2] \div g) * y[2])
RMul(x, y) ==
    LET g1 == GCD(Abs(x[1]), y[2])
        g2 == GCD(Abs(y[1]), x[2])
    IN  Rat((x[1] \div g1) * (y[1] \div g2), (x[2] \div g2) * (y[2] \div g1))
RDiv(x, y) == RMul(x, Rat(y[2], y[1]))

\* floor of the square root of a natural number
RECURSIVE ISqrtFrom(_, _)
ISqrtFrom(n, r) == IF (r + 1) * (r + 1) > n THEN r ELSE ISqrtFrom(n, r + 1)

\* np.sqrt, rounded down to a multiple of 1/SqrtPrec
Sqrt(n) == Rat(ISqrtFrom(n * SqrtPrec * SqrtPrec, 0), SqrtPrec)

\* -------------------------------------------------------- logarithms ----
\* least prime factor of n >= 2, searched from p
RECURSIVE LPF(_, _)
LPF(n, p) == IF p * p > n THEN n ELSE IF n % p = 0 THEN p ELSE LPF(n, p + 1)

\* n with every factor p removed
RECURSIVE Strip(_, _)
Strip(n, p) == IF n % p = 0 THEN Strip(n \div p, p) ELSE n

\* the exponent of p in n
RECURSIVE VP(_, _)
VP(n, p) == IF n % p = 0 THEN 1 + VP(n \div p, p) ELSE 0

RECURSIVE PrimesOf(_)
PrimesOf(n) ==
    IF n <= 1 THEN {}
    ELSE LET p == LPF(n, 2) IN {p} \cup PrimesOf(Strip(n, p))

\* a real number SUM_p c[p] * log p : a function from primes to nonzero
\* rationals; the empty function is 0
ZeroLog == << >>

\* np.log of a positive rational
Log(x) ==
    [ p \in PrimesOf(x[1]) \cup PrimesOf(x[2]) |-> RInt(VP(x[1], p) - VP(x[2], p)) ]

\* the rational c times the real v
LScale(c, v) ==
    IF c[1] = 0 THEN ZeroLog ELSE [ p \in DOMAIN v |-> RMul(c, v[p]) ]

LCoef(v, p) == IF p \in DOMAIN v THEN v[p] ELSE RInt(0)

LAdd(v, w) ==
    LET D == { p \in (DOMAIN v) \cup (DOMAIN w) : RAdd(LCoef(v, p), LCoef(w, p))[1] # 0 }
    IN  [ p \in D |-> RAdd(LCoef(v, p), LCoef(w, p)) ]

\* np.dot( ff, terms ) : ff a sequence of integers, terms of reals
RECURSIVE Dot(_, _)
Dot(ff, terms) ==
    IF ff = << >> THEN ZeroLog
    ELSE LAdd(LScale(RInt(Head(ff)), Head(terms)), Dot(Tail(ff), Tail(terms)))

\* boolean-mask indexing of an array, s[mask]
RECURSIVE MaskSeq(_, _)
MaskSeq(s, mask) ==
    IF s = << >> THEN << >>
    ELSE (IF Head(mask) THEN << Head(s) >> ELSE << >>) \o MaskSeq(Tail(s), Tail(mask))

RECURSIVE SumSeq(_)
SumSeq(s) == IF s = << >> THEN 0 ELSE Head(s) + SumSeq(Tail(s))

RECURSIVE DotInt(_, _)
DotInt(s, t) == IF s = << >> THEN 0 ELSE Head(s) * Head(t) + DotInt(Tail(s), Tail(t))


\* ------------------------------------------------- compact summaries ----
(* compACT, the summary of two experiments handed to the estimators:       *)
(* row i says that ff[i] categories were seen nn_A[i] times in experiment  *)
(* A and nn_B[i] times in experiment B.  N_A, N_B are the numbers of       *)
(* observations, K the a-priori number of categories, Kobs_A and Kobs_B    *)
(* (compact_A.Kobs, compact_B.Kobs) the numbers of categories observed.    *)

\* an outcome of a call: the summary as the call leaves it, and either the
\* value returned or the exception raised
Return(compACT, val) ==
    [ compACT |-> compACT, kind |-> "return", exc |-> "", val |-> val ]
Raise(compACT, exc) ==
    [ compACT |-> compACT, kind |-> "raise", exc |-> exc, val |-> ZeroLog ]

\* ------------------------------------------------------------- Naive ----
gtr0mask(compACT) ==
    [ i \in 1..Len(compACT.ff) |-> compACT.nn_A[i] > 0 /\ compACT.nn_B[i] > 0 ]

\* mutation: the Kullback-Leibler terms taken against the midpoint mixture
KLTermsMidpoint(hh_A, hh_B) ==
    LET mm_AB == [ i \in 1..Len(hh_A) |-> RMul(Rat(1, 2), RAdd(hh_A[i], hh_B[i])) ]
    IN  [ i \in 1..Len(hh_A) |->
            LAdd(LScale(hh_A[i], Log(RDiv(hh_A[i], mm_AB[i]))),
                 LScale(hh_B[i], Log(RDiv(hh_B[i], mm_AB[i])))) ]

\* hh_A * np.log( hh_A / hh_B ), row by row
KLTerms(hh_A, hh_B) ==
    [ i \in 1..Len(hh_A) |-> LScale(hh_A[i], Log(RDiv(hh_A[i], hh_B[i]))) ]

\* mutation: the midpoint mixture without its factor 0.5
JSTermsNoHalf(hh_A, hh_B) ==
    LET mm_AB == [ i \in 1..Len(hh_A) |-> RAdd(hh_A[i], hh_B[i]) ]
    IN  [ i \in 1..Len(hh_A) |->
            LAdd(LScale(hh_A[i], Log(RDiv(hh_A[i], mm_AB[i]))),
                 LScale(hh_B[i], Log(RDiv(hh_B[i], mm_AB[i])))) ]

\* hh_A * np.log( hh_A / mm_AB ) + hh_B * np.log( hh_B / mm_AB ), row by row
JSTerms(hh_A, hh_B) ==
    LET mm_AB == [ i \in 1..Len(hh_A) |-> RMul(Rat(1, 2), RAdd(hh_A[i], hh_B[i])) ]
    IN  [ i \in 1..Len(hh_A) |->
            LAdd(LScale(hh_A[i], Log(RDiv(hh_A[i], mm_AB[i]))),
                 LScale(hh_B[i], Log(RDiv(hh_B[i], mm_AB[i])))) ]

\* mutation: Naive storing the masked arrays back into the summary
NaiveInPlace(compACT, measure, kwargs) ==
    IF kwargs # {} THEN Raise(compACT, "TypeError")
    ELSE
    LET mask   == gtr0mask(compACT)
        masked == [ compACT EXCEPT !.nn_A = MaskSeq(compACT.nn_A, mask),
                                   !.nn_B = MaskSeq(compACT.nn_B, mask),
                                   !.ff = MaskSeq(compACT.ff, mask) ]
        hh_A   == [ i \in 1..Len(masked.ff) |-> Rat(masked.nn_A[i], masked.N_A) ]
        hh_B   == [ i \in 1..Len(masked.ff) |-> Rat(masked.nn_B[i], masked.N_B) ]
    IN  IF measure = "Kullback-Leibler"
        THEN Return(masked, Dot(masked.ff, KLTerms(hh_A, hh_B)))
        ELSE IF measure = "Jensen-Shannon"
        THEN Return(masked, LScale(Rat(1, 2), Dot(masked.ff, JSTerms(hh_A, hh_B))))
        ELSE Raise(masked, "IOError")

Naive(compACT, measure, kwargs) ==
    IF kwargs # {} THEN Raise(compACT, "TypeError")
    ELSE
    LET N_A  == compACT.N_A
        N_B  == compACT.N_B
        mask == gtr0mask(compACT)
        nn_A == MaskSeq(compACT.nn_A, mask)
        nn_B == MaskSeq(compACT.nn_B, mask)
        ff   == MaskSeq(compACT.ff, mask)
        hh_A == [ i \in 1..Len(nn_A) |-> Rat(nn_A[i], N_A) ]
        hh_B == [ i \in 1..Len(nn_B) |-> Rat(nn_B[i], N_B) ]
    IN  IF measure = "Kullback-Leibler"
        THEN Return(compACT, Dot(ff, KLTerms(hh_A, hh_B)))
        ELSE IF measure = "Jensen-Shannon"
        THEN Return(compACT, LScale(Rat(1, 2), Dot(ff, JSTerms(hh_A, hh_B))))
        ELSE Raise(compACT, "IOError")

\* --------------------------------------------------------- Dirichlet ----
\* mutation: the normaliser taken with the a-priori count compACT.K
PseudoFrequenciesByK(compACT, nn, N, a) ==
    [ i \in 1..Len(nn) |->
        RDiv(RAdd(RInt(nn[i]), a), RAdd(RInt(N), RMul(a, RInt(compACT.K)))) ]

\* ( nn + a ) / ( N + a * np.sum( ff ) ), row by row
PseudoFrequencies(compACT, nn, N, a) ==
    [ i \in 1..Len(nn) |->
        RDiv(RAdd(RInt(nn[i]), a), RAdd(RInt(N), RMul(a, RInt(SumSeq(compACT.ff))))) ]

Dirichlet(compACT, a, b, measure, kwargs) ==
    IF kwargs # {} THEN Raise(compACT, "TypeError")
    ELSE
    LET ff     == compACT.ff
        hh_A_a == PseudoFrequencies(compACT, compACT.nn_A, compACT.N_A, a)
        hh_B_b == PseudoFrequencies(compACT, compACT.nn_B, compACT.N_B, b)
    IN  IF measure = "Kullback-Leibler"
        THEN Return(compACT, Dot(ff, KLTerms(hh_A_a, hh_B_b)))
        ELSE IF measure = "Jensen-Shannon"
        THEN Return(compACT, LScale(Rat(1, 2), Dot(ff, JSTerms(hh_A_a, hh_B_b))))
        ELSE Raise(compACT, "IOError")


\* ------------------------------------------------------- switchboard ----
\* a unit conversion factor num / perlog, where perlog is the logarithm the
\* factor divides by, or ZeroLog when it divides by none (the factor 1.)
\* mutation: a table that also knows log3
unit_DictLog3 ==
    [ unit \in {"ln", "log2", "log10", "log3"} |->
        IF unit = "ln" THEN [ num |-> RInt(1), perlog |-> ZeroLog ]
        ELSE IF unit = "log2" THEN [ num |-> RInt(1), perlog |-> Log(RInt(2)) ]
        ELSE IF unit = "log3" THEN [ num |-> RInt(1), perlog |-> Log(RInt(3)) ]
        ELSE [ num |-> RInt(1), perlog |-> Log(RInt(10)) ] ]

unit_Dict ==
    [ unit \in {"ln", "log2", "log10"} |->
        IF unit = "ln" THEN [ num |-> RInt(1), perlog |-> ZeroLog ]
        ELSE IF unit = "log2" THEN [ num |-> RInt(1), perlog |-> Log(RInt(2)) ]
        ELSE [ num |-> RInt(1), perlog |-> Log(RInt(10)) ] ]

\* whether the real v is the rational c times the real w (w # 0)
IsMultiple(v, w, c) == v = LScale(c, w)

\* mutation: the estimate returned as it is, the unit factor left out
TimesUnitLeftOut(unit_conv, dkl_estimate) ==
    [ est |-> dkl_estimate, perlog |-> ZeroLog ]

\* unit_conv * dkl_estimate : the real est / perlog (est when perlog is
\* ZeroLog).  An estimate that is a rational multiple c of perlog gives the
\* rational c, held under the key 1; 0 divided by anything is 0.
Times(unit_conv, dkl_estimate) ==
    LET est == LScale(unit_conv.num, dkl_estimate)
        per == unit_conv.perlog
    IN  IF per = ZeroLog \/ est = ZeroLog
        THEN [ est |-> est, perlog |-> ZeroLog ]
        ELSE IF DOMAIN est = DOMAIN per
                /\ LET q == CHOOSE p \in DOMAIN per : TRUE
                   IN  IsMultiple(est, per, RDiv(est[q], per[q]))
             THEN LET q == CHOOSE p \in DOMAIN per : TRUE
                  IN  [ est |-> [ k \in {1} |-> RDiv(est[q], per[q]) ],
                        perlog |-> ZeroLog ]
             ELSE [ est |-> est, perlog |-> per ]

\* cmw_divergence.CamagliaMoraWalczak( compACT, **kwargs ) : the estimator
\* of another module.  Its estimate is the unknown real held under key 0;
\* given keywords it may not know, it returns or raises, as `accepts` says.
CamagliaMoraWalczak(compACT, kwargs, accepts) ==
    IF kwargs # {} /\ ~accepts THEN Raise(compACT, "TypeError")
    ELSE Return(compACT, [ k \in {0} |-> RInt(1) ])

NoArg == RInt(0)

\* the estimator call `method` resolves to, or the error of the dispatch
Callee(fn, a, b, measure) == [ fn |-> fn, a |-> a, b |-> b, measure |-> measure ]
NoCallee == Callee("none", NoArg, NoArg, "")

\* mutation: both Schurmann-Grassberger pseudocounts from experiment A
SGPseudocountsFromA(compACT) ==
    << Rat(1, compACT.Kobs_A), Rat(1, compACT.Kobs_A) >>

\* (a, b) of method SG
SGPseudocounts(compACT) ==
    << Rat(1, compACT.Kobs_A), Rat(1, compACT.Kobs_B) >>

\* mutation: minimax pseudocounts without the square root
minimaxPseudocountsNoSqrt(compACT) ==
    << Rat(compACT.N_A, compACT.Kobs_A), Rat(compACT.N_B, compACT.Kobs_B) >>

\* (a, b) of method minimax
minimaxPseudocounts(compACT) ==
    << RDiv(Sqrt(compACT.N_A), RInt(compACT.Kobs_A)),
       RDiv(Sqrt(compACT.N_B), RInt(compACT.Kobs_B)) >>

Resolve(compACT, method, measure) ==
    IF method = "naive" THEN Callee("Naive", NoArg, NoArg, measure)
    ELSE IF method = "CMW"
    THEN IF measure # "Kullback-Leibler" THEN Callee("raise", NoArg, NoArg, measure)
         ELSE Callee("CamagliaMoraWalczak", NoArg, NoArg, measure)
    ELSE IF method = "Jeffreys" THEN Callee("Dirichlet", Rat(1, 2), Rat(1, 2), measure)
    ELSE IF method = "Laplace" THEN Callee("Dirichlet", RInt(1), RInt(1), measure)
    ELSE IF method = "SG"
    THEN Callee("Dirichlet", SGPseudocounts(compACT)[1], SGPseudocounts(compACT)[2], measure)
    ELSE IF method = "minimax"
    THEN Callee("Dirichlet", minimaxPseudocounts(compACT)[1],
                minimaxPseudocounts(compACT)[2], measure)
    ELSE Callee("raise", NoArg, NoArg, measure)

\* the call made: Naive( compACT, measure=measure, **kwargs ), ...
Invoke(compACT, callee, kwargs, accepts) ==
    IF callee.fn = "Naive" THEN Naive(compACT, callee.measure, kwargs)
    ELSE IF callee.fn = "Dirichlet"
    THEN Dirichlet(compACT, callee.a, callee.b, callee.measure, kwargs)
    ELSE IF callee.fn = "CamagliaMoraWalczak"
    THEN CamagliaMoraWalczak(compACT, kwargs, accepts)
    ELSE Raise(compACT, "IOError")

\* switchboard( compACT, method, unit, measure, **kwargs ): the outcome,
\* with the estimator call it made (NoCallee when it made none)
switchboard(compACT, method, unit, measure, kwargs, accepts) ==
    IF unit \notin DOMAIN unit_Dict
    THEN [ callee |-> NoCallee ] @@ Raise(compACT, "IOError")
    ELSE IF measure \notin {"Kullback-Leibler", "Jensen-Shannon"}
    THEN [ callee |-> NoCallee ] @@ Raise(compACT, "IOError")
    ELSE
    LET unit_conv == unit_Dict[unit]
        callee    == Resolve(compACT, method, measure)
        dkl       == Invoke(compACT, callee, kwargs, accepts)
    IN  IF callee.fn = "raise"
        THEN [ callee |-> NoCallee ] @@ Raise(compACT, "IOError")
        ELSE IF dkl.kind = "raise"
        THEN [ callee |-> callee ] @@ dkl
        ELSE [ callee |-> callee ]
             @@ Return(dkl.compACT, Times(unit_conv, dkl.val))


\* ------------------------------------- Divergence's estimators ----
\* a call switchboard( compACT, **kw ) with the keywords of the record kw:
\* method, unit and measure bind the parameters of those names (the defaults
\* are "naive", None and "Kullback-Leibler"), any other keyword goes to
\* **kwargs
BindSwitchboard(kw) ==
    [ method  |-> IF "method" \in DOMAIN kw THEN kw.method ELSE "naive",
      unit    |-> IF "unit" \in DOMAIN kw THEN kw.unit ELSE "None",
      measure |-> IF "measure" \in DOMAIN kw THEN kw.measure ELSE "Kullback-Leibler",
      kwargs  |-> (DOMAIN kw) \ {"method", "unit", "measure"} ]

\* the keywords Divergence.kullback_leibler( method, unit ) calls with
kullback_leibler(method, unit) ==
    [ which |-> "Kullback-Leibler", method |-> method, unit |-> unit ]

\* the keywords Divergence.jensen_shannon( method, unit ) calls with
jensen_shannon(method, unit) ==
    [ method |-> method, which |-> "Jensen-Shannon", unit |-> unit ]

\* the keywords Divergence.hellinger( method ) calls with
hellinger(method) ==
    [ method |-> method, which |-> "Hellinger" ]

\* ------------------------------------------------------- front end ----
(* estimate.py.  A histogram is a function from category labels to counts  *)
(* (a dict, or the pd.Series made of it).  The argument `categories` is    *)
(* None, a number (a rational, for int and float) or a string that is no   *)
(* number.                                                                 *)
None   == [ kind |-> "None", val |-> RInt(0) ]
Num(r) == [ kind |-> "num", val |-> r ]
NotANumber == [ kind |-> "str", val |-> RInt(0) ]

\* int( x ): the integer part, towards zero
IntOf(r) == IF r[1] >= 0 THEN r[1] \div r[2] ELSE -((-r[1]) \div r[2])

RLess(x, y) == x[1] * y[2] < y[1] * x[2]
RMax(x, y) == IF RLess(x, y) THEN y ELSE x
Max(x, y) == IF x < y THEN y ELSE x

\* the sum of the values of a function
RECURSIVE SumFn(_)
SumFn(f) ==
    IF DOMAIN f = {} THEN 0
    ELSE LET k == CHOOSE x \in DOMAIN f : TRUE
         IN  f[k] + SumFn([ x \in (DOMAIN f) \ {k} |-> f[x] ])

\* values.groupby( values ).size() : how many keys of f have each value
SizeByValue(f) ==
    [ v \in { f[k] : k \in DOMAIN f } |-> Cardinality({ k \in DOMAIN f : f[k] = v }) ]

\* counts_hist[ key ] = n : the entry is set, or added
SetItem(counts_hist, key, n) ==
    [ k \in (DOMAIN counts_hist) \cup {key} |-> IF k = key THEN n ELSE counts_hist[k] ]

\* mutation: categories taken as given, whatever was observed
update_categoriesNoFloor(obs_n_categ, usr_n_categ, categories) ==
    IF categories.kind = "None"
    THEN [ usr_n_categ |-> obs_n_categ, warned |-> FALSE, exc |-> "" ]
    ELSE IF categories.kind = "str"
    THEN [ usr_n_categ |-> usr_n_categ, warned |-> FALSE, exc |-> "TypeError" ]
    ELSE [ usr_n_categ |-> IntOf(categories.val),
           warned |-> IntOf(categories.val) < obs_n_categ, exc |-> "" ]

\* the integer categories set against the observed number
AtLeastObserved(obs_n_categ, categories) ==
    IF categories > obs_n_categ
    THEN [ usr_n_categ |-> categories, warned |-> FALSE, exc |-> "" ]
    ELSE [ usr_n_categ |-> obs_n_categ, warned |-> categories < obs_n_categ, exc |-> "" ]

\* Skeleton_Class._update_categories( categories ) of an object that observed
\* obs_n_categ ( np.max(self.obs_n_categ) ) categories and holds usr_n_categ:
\* the new usr_n_categ, whether a warning was issued, the exception raised
update_categories(obs_n_categ, usr_n_categ, categories) ==
    IF categories.kind = "None"
    THEN [ usr_n_categ |-> obs_n_categ, warned |-> FALSE, exc |-> "" ]
    ELSE IF categories.kind = "str"
    THEN [ usr_n_categ |-> usr_n_categ, warned |-> FALSE, exc |-> "TypeError" ]
    ELSE AtLeastObserved(obs_n_categ, IntOf(categories.val))

NoExp == [ none |-> TRUE ]
NoDiv == [ none |-> TRUE ]

\* the outcome of a constructor: the object built, or the exception
Built(obj, warned) == [ obj |-> obj, warned |-> warned, exc |-> "" ]
Failed(exc) == [ obj |-> NoExp, warned |-> FALSE, exc |-> exc ]

\* the Experiment of data_hist, with obs_n_categ categories observed and
\* counts_hist as grouped, once _update_categories has answered upd
ExperimentOf(data_hist, obs_n_categ, counts_hist, upd) ==
    Built([ data_hist |-> data_hist,
            tot_counts |-> SumFn(data_hist),
            obs_n_categ |-> obs_n_categ,
            obs_coincedences |->
                SumFn([ k \in { x \in DOMAIN counts_hist : x > 1 } |-> counts_hist[k] ]),
            usr_n_categ |-> upd.usr_n_categ,
            counts_hist |-> IF upd.usr_n_categ > obs_n_categ
                            THEN SetItem(counts_hist, 0, upd.usr_n_categ - obs_n_categ)
                            ELSE counts_hist ],
          upd.warned)

\* (data_hist > 0).sum()
Observed(data_hist) == Cardinality({ k \in DOMAIN data_hist : data_hist[k] > 0 })

\* Experiment( data_hist, categories ): the object built, or the exception
ExperimentInit(data_hist, categories) ==
    IF categories.kind # "num" THEN Failed("TypeError")
    ELSE ExperimentOf(data_hist, Observed(data_hist), SizeByValue(data_hist),
             update_categories(Observed(data_hist), 0,
                 Num(RMax(categories.val, RInt(Cardinality(DOMAIN data_hist))))))

\* the order of the count pairs in an index
PairLess(x, y) == x[1] < y[1] \/ (x[1] = y[1] /\ x[2] < y[2])

\* the index of a counts_hist of count pairs, in ascending order
RECURSIVE SortPairs(_)
SortPairs(S) ==
    IF S = {} THEN << >>
    ELSE LET m == CHOOSE x \in S : \A y \in S \ {x} : PairLess(x, y)
         IN  << m >> \o SortPairs(S \ {m})

\* the fresh Experiment set to the divergence's usr_n_categ, its counts_hist
\* replaced by the rows << count, freq >> of the divergence's counts_hist
Recounted(fresh, usr_n_categ, index, counts_hist, side) ==
    [ fresh EXCEPT
        !.usr_n_categ = update_categories(fresh.obs_n_categ, fresh.usr_n_categ,
                                          Num(RInt(usr_n_categ))).usr_n_categ,
        !.counts_hist = [ i \in 1..Len(index) |->
                            << index[i][side], counts_hist[index[i]] >> ] ]

\* the copy Divergence keeps of one experiment (side 1 or 2), built anew of
\* its data_hist
ExperimentCopy(my_exp, usr_n_categ, counts_hist, side) ==
    Recounted(ExperimentInit(my_exp.data_hist, Num(RInt(2))).obj, usr_n_categ,
              SortPairs(DOMAIN counts_hist), counts_hist, side)

\* pd.concat( [data_hist, data_hist], axis=1 ) with 0 for nan
DataFrame(h1, h2) ==
    [ k \in (DOMAIN h1) \cup (DOMAIN h2) |->
        << IF k \in DOMAIN h1 THEN h1[k] ELSE 0, IF k \in DOMAIN h2 THEN h2[k] ELSE 0 >> ]

\* the observed categories of a Divergence
ObsNCateg(my_exp_1, my_exp_2, df) ==
    [ Exp1 |-> my_exp_1.obs_n_categ, Exp2 |-> my_exp_2.obs_n_categ,
      Union |-> Cardinality({ k \in DOMAIN df : df[k] # << 0, 0 >> }) ]

\* the Divergence of two Experiment objects joined in df, obs_n_categ
\* observed, once _update_categories has answered upd
DivergenceOf(my_exp_1, my_exp_2, df, obs_n_categ, upd, warned) ==
    LET usr_n_categ == upd.usr_n_categ
        counts_hist == IF usr_n_categ > obs_n_categ.Union
                       THEN SetItem(SizeByValue(df), << 0, 0 >>,
                                    usr_n_categ - obs_n_categ.Union)
                       ELSE SizeByValue(df)
    IN  Built([ tot_counts |-> [ Exp1 |-> my_exp_1.tot_counts,
                                 Exp2 |-> my_exp_2.tot_counts ],
                data_hist |-> df,
                obs_n_categ |-> obs_n_categ,
                usr_n_categ |-> usr_n_categ,
                counts_hist |-> counts_hist,
                exp_1 |-> ExperimentCopy(my_exp_1, usr_n_categ, counts_hist, 1),
                exp_2 |-> ExperimentCopy(my_exp_2, usr_n_categ, counts_hist, 2) ],
              warned \/ upd.warned)

\* the Divergence of two Experiment objects joined in df
Joined(my_exp_1, my_exp_2, df, obs_n_categ, warned) ==
    DivergenceOf(my_exp_1, my_exp_2, df, obs_n_categ,
        update_categories(
            Max(Max(obs_n_categ.Exp1, obs_n_categ.Exp2), obs_n_categ.Union), 0,
            Num(RInt(Max(Max(my_exp_1.usr_n_categ, my_exp_2.usr_n_categ),
                         obs_n_categ.Union)))),
        warned)

\* the Divergence of the outcomes e1, e2 of making the two experiments
Join(e1, e2) ==
    IF e1.exc # "" THEN Failed(e1.exc)
    ELSE IF e2.exc # "" THEN Failed(e2.exc)
    ELSE Joined(e1.obj, e2.obj, DataFrame(e1.obj.data_hist, e2.obj.data_hist),
                ObsNCateg(e1.obj, e2.obj, DataFrame(e1.obj.data_hist, e2.obj.data_hist)),
                e1.warned \/ e2.warned)

\* my_exp as an Experiment: itself, or the Experiment made of a histogram
AsExperiment(my_exp, categories) ==
    IF my_exp.experiment THEN Built(my_exp.obj, FALSE)
    ELSE ExperimentInit(my_exp.obj, categories)

\* Divergence( my_exp_1, my_exp_2, categories ): each my_exp is an Experiment
\* ( experiment = TRUE ) or a histogram
DivergenceInit(my_exp_1, my_exp_2, categories) ==
    Join(AsExperiment(my_exp_1, categories), AsExperiment(my_exp_2, categories))

\* ------------------------------------------------------- measureMu ----
(* _aux_definitions.measureMu( alpha, compACT ).  alpha is a scalar or a   *)
(* one-dimensional array of numbers; compACT is the summary of one         *)
(* experiment: N observations, K categories a priori, ff[i] categories     *)
(* seen nn[i] times.  A float is held as "finite", "inf" or "nan": what    *)
(* the claim about the weights asks of it.                                 *)
Scalar(x)   == [ shape |-> "scalar", vals |-> << x >> ]
Array(vals) == [ shape |-> "array", vals |-> vals ]

\* loggamma( x ).real of a number x >= 0: finite but at the pole 0
LogGmm(x) == IF x[1] > 0 THEN "finite" ELSE "inf"

\* x + y and x - y of floats, k * x for k > 0
FPlus(x, y) ==
    IF x = "nan" \/ y = "nan" THEN "nan"
    ELSE IF x = "inf" \/ y = "inf" THEN "inf" ELSE "finite"
FMinus(x, y) ==
    IF x = "nan" \/ y = "nan" \/ (x = "inf" /\ y = "inf") THEN "nan"
    ELSE IF x = "inf" \/ y = "inf" THEN "inf" ELSE "finite"

\* ff.dot( terms ) of floats, ff > 0
RECURSIVE FSum(_)
FSum(terms) ==
    IF terms = << >> THEN "finite" ELSE FPlus(Head(terms), FSum(Tail(terms)))

\* nn + alpha by numpy's broadcasting of a (r,) array with alpha: the sums
\* to take the logarithm of, or << >> when the shapes do not go together
\* or the result is no array ff can be dotted with
Broadcast(nn, alpha) ==
    IF alpha.shape = "scalar" \/ Len(alpha.vals) = 1
    THEN [ i \in 1..Len(nn) |-> RAdd(RInt(nn[i]), alpha.vals[1]) ]
    ELSE IF Len(alpha.vals) = Len(nn)
    THEN [ i \in 1..Len(nn) |-> RAdd(RInt(nn[i]), alpha.vals[i]) ]
    ELSE << >>

\* mp.exp( x ) of one float: an mpf, which has no overflow nor underflow
MpExp(x) ==
    IF x = "finite" THEN [ finite |-> TRUE, sign |-> 1 ]
    ELSE IF x = "inf" THEN [ finite |-> FALSE, sign |-> 1 ]
    ELSE [ finite |-> FALSE, sign |-> 0 ]

\* LogMu, one float per entry of alpha, given the posterior's ff.dot( ... )
LogMuOf(alpha, compACT, dot) ==
    [ j \in 1..Len(alpha.vals) |->
        FMinus(FPlus(FMinus(LogGmm(RMul(RInt(compACT.K), alpha.vals[j])),
                            LogGmm(alpha.vals[j])),
                     dot),
               LogGmm(RAdd(RInt(compACT.N), RMul(RInt(compACT.K), alpha.vals[j])))) ]

\* mp.exp( LogMu ): of a numpy float an mpf, of a numpy array a TypeError
ExpOf(alpha, compACT, LogMu) ==
    IF alpha.shape = "scalar"
    THEN Return(compACT, Scalar(MpExp(LogMu[1])))
    ELSE Raise(compACT, "TypeError")

measureMu(alpha, compACT) ==
    IF Broadcast(compACT.nn, alpha) = << >> THEN Raise(compACT, "ValueError")
    ELSE ExpOf(alpha, compACT,
               LogMuOf(alpha, compACT,
                       FSum([ i \in 1..Len(compACT.nn) |->
                                LogGmm(Broadcast(compACT.nn, alpha)[i]) ])))

\* ------------------------------------------- the estimation core ----
(* The state of a session with the estimation core: a compact summary, the *)
(* last call made on it and that call's outcome.                           *)
VARIABLES compACT, args, out

(* The state of a session with the front end: two Experiment objects, a    *)
(* Divergence object, and the last operation made with its outcome.        *)
VARIABLES exp_1, exp_2, div, last

corevars  == << compACT, args, out >>
frontvars == << exp_1, exp_2, div, last >>
vars == << compACT, args, out, exp_1, exp_2, div, last >>

Units    == {"ln", "log2", "log10", "log3", "None"}
Measures == {"Kullback-Leibler", "Jensen-Shannon", "Hellinger"}
Methods  == {"naive", "CMW", "Jeffreys", "Laplace", "SG", "minimax", "unknown"}
\* the keyword arguments a caller may add to a call
Kwargs   == {{}, {"which"}}
\* the pseudocounts of the direct calls of Dirichlet
Pseudocounts == {Rat(1, 2), RInt(1)}

Pairs == (0..MaxN) \X (0..MaxN)

\* the joint histograms of at most k categories, at most nA observations in
\* experiment A and nB in experiment B: the categories' count pairs in the
\* order of the index, from the pair lo on
RECURSIVE Tallies(_, _, _, _)
Tallies(k, nA, nB, lo) ==
    { << >> } \cup
    ( IF k = 0 THEN {}
      ELSE UNION { { << p >> \o s : s \in Tallies(k - 1, nA - p[1], nB - p[2], p) } :
                   p \in { q \in Pairs : ~PairLess(q, lo) /\ q[1] <= nA /\ q[2] <= nB } } )

\* groupby( ... ).size() of a sorted joint histogram: its distinct count
\* pairs, each with the number of categories that have it
RECURSIVE GroupBy(_)
GroupBy(cats) ==
    IF cats = << >> THEN << >>
    ELSE LET n == Cardinality({ i \in 1..Len(cats) : cats[i] = Head(cats) })
         IN  << << Head(cats), n >> >> \o GroupBy(SubSeq(cats, n + 1, Len(cats)))

\* the summary of the joint histogram cats, with a-priori count K
Summary(cats, K) ==
    LET rows == GroupBy(cats)
        nn_A == [ i \in 1..Len(rows) |-> rows[i][1][1] ]
        nn_B == [ i \in 1..Len(rows) |-> rows[i][1][2] ]
        ff   == [ i \in 1..Len(rows) |-> rows[i][2] ]
    IN  [ N_A |-> DotInt(ff, nn_A), N_B |-> DotInt(ff, nn_B), K |-> K,
          nn_A |-> nn_A, nn_B |-> nn_B, ff |-> ff,
          Kobs_A |-> Cardinality({ i \in 1..Len(cats) : cats[i][1] > 0 }),
          Kobs_B |-> Cardinality({ i \in 1..Len(cats) : cats[i][2] > 0 }) ]

\* the number of categories seen in at least one experiment
UnionOf(cats) == Cardinality({ i \in 1..Len(cats) : cats[i] # << 0, 0 >> })

(* The summaries Divergence builds of two experiments with at least one    *)
(* observation each.  K is the number of categories listed, except where   *)
(* Divergence.__init__ leaves the row (0, 0) as grouped: then K is the     *)
(* number of categories seen, which takes two histograms no longer than    *)
(* that number.                                                            *)
Summaries ==
    UNION { { Summary(cats, Len(cats)) } \cup
            ( IF LET z == Len(cats) - UnionOf(cats)
                     c == Summary(cats, UnionOf(cats))
                 IN  z > 0 /\ z <= (c.K - c.Kobs_A) + (c.K - c.Kobs_B)
              THEN { Summary(cats, UnionOf(cats)) } ELSE {} ) :
            cats \in { t \in Tallies(MaxK, MaxN, MaxN, << 0, 0 >>) :
                         /\ \E i \in 1..Len(t) : t[i][1] > 0
                         /\ \E i \in 1..Len(t) : t[i][2] > 0 } }

NoArgs ==
    [ fn |-> "none", method |-> "", unit |-> "", measure |-> "", kwargs |-> {},
      accepts |-> FALSE, a |-> NoArg, b |-> NoArg ]
NoOut == [ callee |-> NoCallee ] @@ Raise(<< >>, "")
NoLast ==
    [ op |-> "none", target |-> "", categories |-> None, before |-> 0,
      warned |-> FALSE, exc |-> "" ]

Init ==
    /\ compACT \in Summaries
    /\ args = NoArgs
    /\ out = NoOut
    /\ exp_1 = NoExp /\ exp_2 = NoExp /\ div = NoDiv /\ last = NoLast

\* default_divergence.switchboard( compACT, method, unit, measure, **kwargs )
SwitchboardCall ==
    /\ args.fn = "none"
    /\ \E method \in Methods, unit \in Units, measure \in Measures, kwargs \in Kwargs :
       \E accepts \in (IF method = "CMW" /\ kwargs # {} THEN BOOLEAN ELSE {FALSE}) :
        LET r == switchboard(compACT, method, unit, measure, kwargs, accepts)
        IN  /\ args' = [ fn |-> "switchboard", method |-> method, unit |-> unit,
                         measure |-> measure, kwargs |-> kwargs,
                         accepts |-> accepts, a |-> NoArg, b |-> NoArg ]
            /\ out' = r
            /\ compACT' = r.compACT
            /\ UNCHANGED frontvars

\* the call switchboard( self.compact(), **kw ) of a Divergence whose
\* compact() is compACT
FrontCall(fn, kw) ==
    LET bound == BindSwitchboard(kw)
    IN  \E accepts \in (IF bound.method = "CMW" THEN BOOLEAN ELSE {FALSE}) :
        LET r == switchboard(compACT, bound.method, bound.unit, bound.measure,
                             bound.kwargs, accepts)
        IN  /\ args' = [ fn |-> fn, method |-> bound.method, unit |-> bound.unit,
                         measure |-> bound.measure, kwargs |-> bound.kwargs,
                         accepts |-> accepts, a |-> NoArg, b |-> NoArg ]
            /\ out' = r
            /\ compACT' = r.compACT
            /\ UNCHANGED frontvars

\* Divergence.kullback_leibler( method, unit )
KullbackLeiblerCall ==
    /\ args.fn = "none"
    /\ \E method \in Methods, unit \in Units :
        FrontCall("kullback_leibler", kullback_leibler(method, unit))

\* Divergence.jensen_shannon( method, unit )
JensenShannonCall ==
    /\ args.fn = "none"
    /\ \E method \in Methods, unit \in Units :
        FrontCall("jensen_shannon", jensen_shannon(method, unit))

\* Divergence.hellinger( method )
HellingerCall ==
    /\ args.fn = "none"
    /\ \E method \in Methods :
        FrontCall("hellinger", hellinger(method))

\* default_divergence.Naive( compACT, measure )
NaiveCall ==
    /\ args.fn = "none"
    /\ \E measure \in Measures :
        LET r == Naive(compACT, measure, {})
        IN  /\ args' = [ fn |-> "Naive", method |-> "", unit |-> "",
                         measure |-> measure, kwargs |-> {}, accepts |-> FALSE,
                         a |-> NoArg, b |-> NoArg ]
            /\ out' = [ callee |-> NoCallee ] @@ r
            /\ compACT' = r.compACT
            /\ UNCHANGED frontvars

\* default_divergence.Dirichlet( compACT, a, b, measure )
DirichletCall ==
    /\ args.fn = "none"
    /\ \E a \in Pseudocounts, b \in Pseudocounts, measure \in Measures :
        LET r == Dirichlet(compACT, a, b, measure, {})
        IN  /\ args' = [ fn |-> "Dirichlet", method |-> "", unit |-> "",
                         measure |-> measure, kwargs |-> {}, accepts |-> FALSE,
                         a |-> a, b |-> b ]
            /\ out' = [ callee |-> NoCallee ] @@ r
            /\ compACT' = r.compACT
            /\ UNCHANGED frontvars

\* the caller takes the outcome; the summary is ready for the next call
Taken ==
    /\ args.fn # "none"
    /\ args' = NoArgs
    /\ out' = NoOut
    /\ UNCHANGED << compACT, frontvars >>

Next ==
    \/ SwitchboardCall
    \/ NaiveCall
    \/ DirichletCall
    \/ KullbackLeiblerCall
    \/ JensenShannonCall
    \/ HellingerCall
    \/ Taken

Spec == Init /\ [][Next]_vars


\* ---------------------------------------------- the front-end session ----
\* the category labels of the histograms
Labels == {"a", "b", "c"}
\* the histograms handed to Experiment and Divergence
Hists == UNION { [ S -> 0..MaxTally ] : S \in (SUBSET Labels) \ {{}} }
\* the numbers handed as `categories`
Numbers == { Num(Rat(-1, 2)), Num(Rat(5, 2)) }

\* np.max( self.obs_n_categ ) of an Experiment or a Divergence
ObsOf(obj) ==
    IF "exp_1" \in DOMAIN obj
    THEN Max(Max(obj.obs_n_categ.Exp1, obj.obs_n_categ.Exp2), obj.obs_n_categ.Union)
    ELSE obj.obs_n_categ

FrontInit ==
    /\ compACT = << >> /\ args = NoArgs /\ out = NoOut
    /\ exp_1 = NoExp /\ exp_2 = NoExp /\ div = NoDiv /\ last = NoLast

\* exp_1 = Experiment( data_hist, categories )
NewExperiment1 ==
    /\ exp_1 = NoExp /\ div = NoDiv
    /\ \E data_hist \in Hists, categories \in Numbers \cup {None} :
        LET r == ExperimentInit(data_hist, categories)
        IN  /\ exp_1' = r.obj
            /\ last' = [ op |-> "Experiment", target |-> "exp_1",
                         categories |-> categories, before |-> 0,
                         warned |-> r.warned, exc |-> r.exc ]
    /\ UNCHANGED << corevars, exp_2, div >>

\* exp_2 = Experiment( data_hist, categories )
NewExperiment2 ==
    /\ exp_2 = NoExp /\ div = NoDiv
    /\ \E data_hist \in Hists, categories \in Numbers \cup {None} :
        LET r == ExperimentInit(data_hist, categories)
        IN  /\ exp_2' = r.obj
            /\ last' = [ op |-> "Experiment", target |-> "exp_2",
                         categories |-> categories, before |-> 0,
                         warned |-> r.warned, exc |-> r.exc ]
    /\ UNCHANGED << corevars, exp_1, div >>

\* what may be handed to Divergence for one experiment: the Experiment
\* object at hand, or else a histogram
MyExps(exp) ==
    IF exp # NoExp THEN { [ experiment |-> TRUE, obj |-> exp ] }
    ELSE { [ experiment |-> FALSE, obj |-> h ] : h \in Hists }

\* div = Divergence( my_exp_1, my_exp_2, categories ); the session keeps the
\* Divergence only, which holds its own copies of the experiments
NewDivergence ==
    /\ div = NoDiv
    /\ \E my_exp_1 \in MyExps(exp_1), my_exp_2 \in MyExps(exp_2),
          categories \in Numbers \cup {None} :
        LET r == DivergenceInit(my_exp_1, my_exp_2, categories)
        IN  /\ div' = r.obj
            /\ last' = [ op |-> "Divergence", target |-> "div",
                         categories |-> categories, before |-> 0,
                         warned |-> r.warned, exc |-> r.exc ]
    /\ exp_1' = NoExp /\ exp_2' = NoExp
    /\ UNCHANGED corevars

\* obj._update_categories( categories ) on the object named target
UpdateCategories ==
    \E target \in {"exp_1", "exp_2", "div"},
       categories \in Numbers \cup {None, NotANumber} :
        LET obj == CASE target = "exp_1" -> exp_1
                     [] target = "exp_2" -> exp_2
                     [] OTHER -> div
        IN  /\ obj # NoExp
            /\ LET r   == update_categories(ObsOf(obj), obj.usr_n_categ, categories)
                   new == [ obj EXCEPT !.usr_n_categ = r.usr_n_categ ]
               IN  /\ exp_1' = IF target = "exp_1" THEN new ELSE exp_1
                   /\ exp_2' = IF target = "exp_2" THEN new ELSE exp_2
                   /\ div'   = IF target = "div" THEN new ELSE div
                   /\ last' = [ op |-> "_update_categories", target |-> target,
                                categories |-> categories,
                                before |-> obj.usr_n_categ,
                                warned |-> r.warned, exc |-> r.exc ]
            /\ UNCHANGED corevars

FrontNext ==
    \/ NewExperiment1
    \/ NewExperiment2
    \/ NewDivergence
    \/ UpdateCategories

FrontSpec == FrontInit /\ [][FrontNext]_vars

\* ----------------------------------------- a session with measureMu ----
\* the values of alpha: 0, and of the range [1e-4, 1e4] its ends and 1
AlphaValues == { RInt(0), Rat(1, 10000), RInt(1), RInt(10000) }
Alphas ==
    { Scalar(x) : x \in AlphaValues } \cup
    { Array(v) : v \in UNION { [ 1..m -> AlphaValues ] : m \in 1..MaxAlpha } }

\* the summaries of one experiment: rows of distinct counts in ascending
\* order, with sum(ff) == K and ff.dot(nn) == N > 0; and the summary K = 100,
\* N = 1000, nn = [5, 10, 50], ff = [30, 40, 30]
MuSummaries ==
    { [ N |-> 1000, K |-> 100, nn |-> << 5, 10, 50 >>, ff |-> << 30, 40, 30 >> ] } \cup
    UNION { { [ N |-> DotInt(ff, nn), K |-> SumSeq(ff), nn |-> nn, ff |-> ff ] :
                nn \in { c \in [ 1..r -> 0..MaxN ] :
                           /\ c[r] > 0
                           /\ \A i \in 1..(r - 1) : c[i] < c[i + 1] },
                ff \in [ 1..r -> 1..2 ] } :
            r \in 1..MaxK }

MuInit ==
    /\ compACT \in MuSummaries
    /\ args = NoArgs
    /\ out = NoOut
    /\ exp_1 = NoExp /\ exp_2 = NoExp /\ div = NoDiv /\ last = NoLast

\* measureMu( alpha, compACT )
MeasureMuCall ==
    /\ args.fn = "none"
    /\ \E alpha \in Alphas :
        /\ args' = [ fn |-> "measureMu", alpha |-> alpha ]
        /\ out' = [ callee |-> NoCallee ] @@ measureMu(alpha, compACT)
        /\ compACT' = out'.compACT
        /\ UNCHANGED frontvars

MuNext ==
    \/ MeasureMuCall
    \/ Taken

MuSpec == MuInit /\ [][MuNext]_vars

\* ------------------------------------------------------------ claims ----
ValidUnits    == {"ln", "log2", "log10"}
ValidMeasures == {"Kullback-Leibler", "Jensen-Shannon"}
ValidMethods  == {"naive", "CMW", "Jeffreys", "Laplace", "SG", "minimax"}
DirichletMethods == {"Jeffreys", "Laplace", "SG", "minimax"}

ValidCall(a) ==
    /\ a.unit \in ValidUnits
    /\ a.measure \in ValidMeasures
    /\ a.method \in ValidMethods
    /\ ~(a.method = "CMW" /\ a.measure # "Kullback-Leibler")

\* C1: switchboard returns a number only for a unit among ln, log2, log10,
\* a measure among Kullback-Leibler and Jensen-Shannon, a method among
\* naive, CMW, Jeffreys, Laplace, SG, minimax, and not for CMW with a
\* measure other than Kullback-Leibler; every other call raises IOError.
C1_NumericOnlyWhenValid ==
    args.fn = "switchboard" =>
        /\ out.kind = "return" => ValidCall(args)
        /\ ~ValidCall(args) => out.kind = "raise" /\ out.exc = "IOError"

\* the default unit=None is rejected
C1_Witness ==
    /\ args.fn = "switchboard" /\ args.unit = "None" /\ args.method = "naive"
    /\ args.measure = "Kullback-Leibler" /\ args.kwargs = {}
    /\ out.kind = "raise" /\ out.exc = "IOError"

\* the pseudocounts each named method stands for
ExpectedAB(c, method) ==
    IF method = "Jeffreys" THEN << << 1, 2 >>, << 1, 2 >> >>
    ELSE IF method = "Laplace" THEN << << 1, 1 >>, << 1, 1 >> >>
    ELSE IF method = "SG" THEN << << 1, c.Kobs_A >>, << 1, c.Kobs_B >> >>
    ELSE << RDiv(Sqrt(c.N_A), RInt(c.Kobs_A)), RDiv(Sqrt(c.N_B), RInt(c.Kobs_B)) >>

\* C2: with a valid unit and measure, Jeffreys, Laplace, SG and minimax call
\* Dirichlet with (0.5, 0.5), (1, 1), (1/Kobs_A, 1/Kobs_B) and
\* (sqrt(N_A)/Kobs_A, sqrt(N_B)/Kobs_B) and the caller's measure, naive
\* calls Naive with that measure, and the value returned is the unit factor
\* times what that estimator gives for those arguments.
C2_MethodResolution ==
    (args.fn = "switchboard" /\ args.unit \in ValidUnits /\ args.measure \in ValidMeasures) =>
        /\ args.method \in DirichletMethods =>
            /\ out.callee = [ fn |-> "Dirichlet", a |-> ExpectedAB(compACT, args.method)[1],
                              b |-> ExpectedAB(compACT, args.method)[2],
                              measure |-> args.measure ]
            /\ args.kwargs = {} =>
                /\ out.kind = "return"
                /\ out.val = Times(unit_Dict[args.unit],
                                   Dirichlet(compACT, ExpectedAB(compACT, args.method)[1],
                                             ExpectedAB(compACT, args.method)[2],
                                             args.measure, {}).val)
        /\ args.method = "naive" =>
            /\ out.callee = [ fn |-> "Naive", a |-> NoArg, b |-> NoArg,
                              measure |-> args.measure ]
            /\ args.kwargs = {} =>
                /\ out.kind = "return"
                /\ out.val = Times(unit_Dict[args.unit],
                                   Naive(compACT, args.measure, {}).val)

\* SG on a summary whose experiments saw different numbers of categories
C2_Witness ==
    /\ args.fn = "switchboard" /\ args.method = "SG" /\ args.unit = "log2"
    /\ args.measure = "Jensen-Shannon" /\ args.kwargs = {}
    /\ compACT.Kobs_A # compACT.Kobs_B
    /\ out.kind = "return"
    /\ out.callee.a = << 1, compACT.Kobs_A >> /\ out.callee.b = << 1, compACT.Kobs_B >>


\* C3 as stated: kullback_leibler and jensen_shannon, for every method and
\* unit their docstrings list, have the estimator evaluated with the measure
\* they are named after and return a number; hellinger hands the measure
\* "Hellinger" to switchboard.
C3_FrontEndMeasure ==
    /\ ( /\ args.fn = "kullback_leibler"
         /\ args.method \in ValidMethods /\ args.unit \in ValidUnits ) =>
            out.kind = "return" /\ out.callee.measure = "Kullback-Leibler"
    /\ ( /\ args.fn = "jensen_shannon"
         /\ args.method \in ValidMethods \ {"CMW"} /\ args.unit \in ValidUnits ) =>
            out.kind = "return" /\ out.callee.measure = "Jensen-Shannon"
    /\ args.fn = "hellinger" => args.measure = "Hellinger"

\* the summary with its two experiments exchanged, ff kept
SwapAB(c) ==
    [ c EXCEPT !.nn_A = c.nn_B, !.nn_B = c.nn_A, !.N_A = c.N_B, !.N_B = c.N_A,
               !.Kobs_A = c.Kobs_B, !.Kobs_B = c.Kobs_A ]

\* the outcome of the call `a` made on the summary c
Outcome(c, a) ==
    IF a.fn = "Naive"
    THEN [ callee |-> NoCallee ] @@ Naive(c, a.measure, a.kwargs)
    ELSE IF a.fn = "Dirichlet"
    THEN [ callee |-> NoCallee ] @@ Dirichlet(c, a.a, a.b, a.measure, a.kwargs)
    ELSE switchboard(c, a.method, a.unit, a.measure, a.kwargs, a.accepts)

\* C6: a call of switchboard, Naive or Dirichlet, returning or raising,
\* leaves every field of the summary as it was, and the same call made again
\* on the summary has the same outcome.
C6_SummaryUnchanged ==
    [][ args'.fn # "none" =>
            /\ compACT' = compACT
            /\ out'.compACT = compACT
            /\ Outcome(compACT', args') = out' ]_vars

\* a call of Naive that masks a row out of a summary of three rows
C6_Witness ==
    /\ args.fn = "Naive" /\ out.kind = "return"
    /\ \E i \in 1..Len(compACT.ff) : compACT.nn_B[i] = 0
    /\ Len(compACT.ff) = 3

\* C7: exchanging the two experiments of the summary leaves the
\* Jensen-Shannon result of switchboard unchanged, for naive, Jeffreys,
\* Laplace, SG and minimax and every unit.
C7_JensenShannonSymmetric ==
    ( /\ args.fn = "switchboard" /\ args.measure = "Jensen-Shannon"
      /\ args.method \in {"naive"} \cup DirichletMethods
      /\ out.kind = "return" ) =>
        LET r == Outcome(SwapAB(compACT), args)
        IN  r.kind = "return" /\ r.val = out.val

\* minimax on two experiments that differ in size and in categories seen
C7_Witness ==
    /\ args.fn = "switchboard" /\ args.measure = "Jensen-Shannon"
    /\ args.method = "minimax" /\ args.unit = "log10"
    /\ out.kind = "return" /\ out.val.est # ZeroLog
    /\ compACT.N_A # compACT.N_B /\ compACT.Kobs_A # compACT.Kobs_B

\* the two experiments' distributions differ
Differ(c) == \E i \in 1..Len(c.ff) : c.nn_A[i] * c.N_B # c.nn_B[i] * c.N_A

\* the Kullback-Leibler estimate of the call `a` after the experiments (and
\* with them the pseudocounts) are exchanged
KLSwapped(c, a) ==
    IF a.fn = "Naive" THEN Naive(SwapAB(c), "Kullback-Leibler", {}).val
    ELSE Dirichlet(SwapAB(c), a.b, a.a, "Kullback-Leibler", {}).val

KLReturned ==
    /\ args.fn \in {"Naive", "Dirichlet"}
    /\ args.measure = "Kullback-Leibler"
    /\ out.kind = "return"

\* C8 as stated: exchanging the experiments changes the Kullback-Leibler
\* result of Naive and Dirichlet whenever the two distributions differ.
C8_SwapChangesKL ==
    (KLReturned /\ Differ(compACT)) => KLSwapped(compACT, args) # out.val

\* the rows of a summary, each with its multiplicity
RowSet(c) == { << c.nn_A[i], c.nn_B[i], c.ff[i] >> : i \in 1..Len(c.ff) }

\* the rows with a count in both experiments
Surviving(c) == { i \in 1..Len(c.ff) : c.nn_A[i] > 0 /\ c.nn_B[i] > 0 }

\* C8 amended: the exchange leaves the Kullback-Leibler result unchanged when
\* the exchanged summary has the rows of the original (and Dirichlet is
\* given equal pseudocounts), whether or not the distributions differ; it
\* changes the Naive result when exactly one row has a count in both
\* experiments and the two frequencies of that row differ.
C8_SwapAndKL ==
    KLReturned =>
        /\ ( /\ RowSet(SwapAB(compACT)) = RowSet(compACT)
             /\ args.fn = "Dirichlet" => args.a = args.b )
           => KLSwapped(compACT, args) = out.val
        /\ ( /\ args.fn = "Naive"
             /\ \E i \in Surviving(compACT) :
                    /\ Surviving(compACT) = {i}
                    /\ compACT.nn_A[i] * compACT.N_B # compACT.nn_B[i] * compACT.N_A )
           => KLSwapped(compACT, args) # out.val

\* nn_A = [1, 2], nn_B = [2, 1]: different distributions, the same estimate
C8_Witness ==
    /\ KLReturned /\ args.fn = "Naive"
    /\ compACT.nn_A = << 1, 2 >> /\ compACT.nn_B = << 2, 1 >> /\ compACT.ff = << 1, 1 >>
    /\ Differ(compACT)
    /\ out.val # ZeroLog
    /\ KLSwapped(compACT, args) = out.val

\* the two experiments of the summary are the same
Identical(c) == c.nn_A = c.nn_B /\ c.N_A = c.N_B /\ c.Kobs_A = c.Kobs_B

\* C9: on a summary whose two experiments are the same, Naive, and Dirichlet
\* under the pseudocounts of Jeffreys, Laplace, SG and minimax, return zero
\* for Kullback-Leibler and for Jensen-Shannon.
C9_ZeroSelfDivergence ==
    Identical(compACT) =>
        /\ (args.fn = "Naive" /\ args.measure \in ValidMeasures) =>
                out.kind = "return" /\ out.val = ZeroLog
        /\ ( /\ args.fn = "switchboard" /\ args.kwargs = {}
             /\ args.unit \in ValidUnits /\ args.measure \in ValidMeasures
             /\ args.method \in {"naive"} \cup DirichletMethods ) =>
                /\ out.kind = "return" /\ out.val.est = ZeroLog
                /\ Invoke(compACT, out.callee, {}, FALSE).val = ZeroLog

C9_Witness ==
    /\ Identical(compACT) /\ Len(compACT.ff) = 3
    /\ args.fn = "switchboard" /\ args.method = "minimax"
    /\ args.measure = "Jensen-Shannon" /\ args.unit = "ln"
    /\ out.kind = "return" /\ out.callee.fn = "Dirichlet"

\* the summary c with the one category of row i counted x times in
\* experiment A instead; N_A follows, so that ff.dot(nn_A) == N_A holds
Recount(c, i, x) ==
    [ c EXCEPT !.nn_A[i] = x, !.N_A = c.N_A - c.nn_A[i] + x ]

\* C10 as stated: when a category has no count in experiment B, the Naive
\* result is the same whatever nonzero count the category has in experiment
\* A, the summary's invariants holding.
C10_NaiveIgnoresExcludedCount ==
    (args.fn = "Naive" /\ out.kind = "return") =>
        \A i \in 1..Len(compACT.ff), x \in 1..MaxN :
            (compACT.nn_A[i] > 0 /\ compACT.nn_B[i] = 0 /\ compACT.ff[i] = 1)
            => Naive(Recount(compACT, i, x), args.measure, {}).val = out.val


\* ----- front end -----
\* the object holds no fewer categories than it observed
Floored(obj) == obj.usr_n_categ >= ObsOf(obj)

Target ==
    CASE last.target = "exp_1" -> exp_1
      [] last.target = "exp_2" -> exp_2
      [] OTHER -> div

\* C4: after Experiment or Divergence is constructed, the frequencies of its
\* counts_hist sum to its usr_n_categ.
C4_CountsHistSumsToCategories ==
    (last.op \in {"Experiment", "Divergence"} /\ last.exc = "")
        => SumFn(Target.counts_hist) = Target.usr_n_categ

\* the state after obj._update_categories( categories ), a warning being
\* due when Due(categories, observed number) holds
AfterUpdate(Due(_, _)) ==
    /\ exp_1 # NoExp => Floored(exp_1)
    /\ exp_2 # NoExp => Floored(exp_2)
    /\ div # NoDiv => Floored(div) /\ Floored(div.exp_1) /\ Floored(div.exp_2)
    /\ last.op = "_update_categories" =>
        LET c   == last.categories
            obs == ObsOf(Target)
        IN  IF c.kind = "str"
            THEN /\ last.exc = "TypeError"
                 /\ Target.usr_n_categ = last.before
                 /\ ~last.warned
            ELSE /\ last.exc = ""
                 /\ Target.usr_n_categ =
                        IF c.kind = "num" /\ IntOf(c.val) > obs
                        THEN IntOf(c.val) ELSE obs
                 /\ last.warned <=> (c.kind = "num" /\ Due(c.val, obs))

Below(x, obs) == RLess(x, RInt(obs))
IntBelow(x, obs) == IntOf(x) < obs

\* C5, as stated: usr_n_categ is never below the observed number of
\* categories; after _update_categories( categories ) it is int( categories )
\* when that is above the observed number and the observed number otherwise
\* (None included), and a warning is issued exactly when categories is
\* strictly below the observed number.
C5_WarnsWhenBelowObserved == AfterUpdate(Below)

\* C5, amended: as above, but the warning is issued exactly when
\* int( categories ) is strictly below the observed number; a call that
\* raises leaves usr_n_categ as it was.
C5_CategoriesNeverBelowObserved == AfterUpdate(IntBelow)

\* a Divergence that holds more categories than observed is told a number
\* below the observed one: it falls back to the observed number and warns
C5_Witness ==
    /\ last.op = "_update_categories" /\ last.target = "div"
    /\ last.categories.kind = "num"
    /\ last.before > ObsOf(div)
    /\ IntOf(last.categories.val) < ObsOf(div)
    /\ div.usr_n_categ = ObsOf(div)
    /\ last.warned



\* ----- units -----
\* whether the value val, times the logarithm per, is the real y
IsProduct(val, per, y) ==
    \/ val.perlog = per /\ val.est = y
    \/ val.perlog = ZeroLog /\ val.est = ZeroLog /\ y = ZeroLog
    \/ /\ val.perlog = ZeroLog /\ DOMAIN val.est = {1}
       /\ y = LScale(val.est[1], per)

\* the logarithm the table divides by for the units log2 and log10
UnitLog(unit) == IF unit = "log2" THEN Log(RInt(2)) ELSE Log(RInt(10))

\* C11: for units log2 and log10, the call of switchboard ends as the same
\* call with unit ln ends (same estimator called, same exception, summary
\* unchanged); when it returns, the ln value is the estimator's value and the
\* value returned is the ln value divided by ln(2), respectively ln(10).
C11_UnitScaling ==
    (args.fn = "switchboard" /\ args.unit \in {"log2", "log10"}) =>
        LET ln == Outcome(compACT, [ args EXCEPT !.unit = "ln" ])
        IN  /\ ln.kind = out.kind /\ ln.exc = out.exc
            /\ ln.callee = out.callee /\ ln.compACT = out.compACT
            /\ out.kind = "return" =>
                /\ ln.val.perlog = ZeroLog
                /\ ln.val.est = Invoke(compACT, out.callee, args.kwargs, args.accepts).val
                /\ IsProduct(out.val, UnitLog(args.unit), ln.val.est)

\* a Jensen-Shannon estimate in log10 that is no rational number
C11_Witness ==
    /\ args.fn = "switchboard" /\ args.unit = "log10" /\ args.method = "Laplace"
    /\ args.measure = "Jensen-Shannon" /\ out.kind = "return"
    /\ out.val.perlog = Log(RInt(10)) /\ out.val.est # ZeroLog



\* ----- Dirichlet's frequencies -----
\* ff.dot( hh ) of rational frequencies
RECURSIVE RDot(_, _)
RDot(ff, hh) ==
    IF ff = << >> THEN RInt(0)
    ELSE RAdd(RMul(RInt(Head(ff)), Head(hh)), RDot(Tail(ff), Tail(hh)))

\* a call of Dirichlet that returned, made directly or by switchboard
DirichletReturned ==
    /\ out.kind = "return"
    /\ args.fn = "Dirichlet" \/ (args.fn = "switchboard" /\ out.callee.fn = "Dirichlet")

\* the pseudocounts of that call
CallA == IF args.fn = "Dirichlet" THEN args.a ELSE out.callee.a
CallB == IF args.fn = "Dirichlet" THEN args.b ELSE out.callee.b

\* every row has the frequency ( nn + a ) / ( N + a * k )
NormalisedBy(hh, nn, N, a, k) ==
    /\ Len(hh) = Len(nn)
    /\ \A i \in 1..Len(nn) :
        hh[i] = RDiv(RAdd(RInt(nn[i]), a), RAdd(RInt(N), RMul(a, RInt(k))))

InRange(alpha) ==
    \A j \in 1..Len(alpha.vals) :
        /\ ~RLess(alpha.vals[j], Rat(1, 10000))
        /\ ~RLess(RInt(10000), alpha.vals[j])

\* C12: for alpha in [1e-4, 1e4], a scalar or an array, measureMu returns
\* one weight per entry of alpha, in the shape of alpha, and every weight is
\* finite and non-negative.
C12_OneWeightPerAlpha ==
    (args.fn = "measureMu" /\ InRange(args.alpha)) =>
        /\ out.kind = "return"
        /\ out.val.shape = args.alpha.shape
        /\ Len(out.val.vals) = Len(args.alpha.vals)
        /\ \A j \in 1..Len(out.val.vals) :
            out.val.vals[j].finite /\ out.val.vals[j].sign >= 0


====
